---- MODULE Spec2Model ----
(***************************************************************************)
(* Model of maize_climate_stress_analysis.py: a sequential script that     *)
(* scans 16 daily temperature series for a global y-axis range, then, for  *)
(* each of 4 location groups, validates the Mean.xlsx sheets, draws a 2x2  *)
(* grid of subplots and saves it as plot_grid_<k>.png.                     *)
(*                                                                         *)
(* Temperatures are whole degrees Celsius.  Spreadsheet cells are tenths   *)
(* of a day, <<>> standing for NaN.  Python sequences are TLA+ sequences;  *)
(* Python's 0-based indices are translated by PySlice / PyGet.             *)
(***************************************************************************)
EXTENDS Integers, Sequences, FiniteSets, TLC

(* ------------------------------------------------------------------ *)
(* Configuration constants of the script                              *)
(* ------------------------------------------------------------------ *)
location_groups ==
    << <<"Dezful", "Shushtar">>, <<"Lamerd", "Kermanshah">>,
       <<"Zarqan", "Ravansar">>, <<"Parsabad", "Ilam">> >>

all_locations ==
    << "Dezful", "Shushtar", "Lamerd", "Kermanshah",
       "Zarqan", "Ravansar", "Parsabad", "Ilam" >>

scenarios == << "ssp245", "ssp585" >>

cultivars == << "260", "704" >>

row_indices ==
    [c \in {"260", "704"} |->
        IF c = "260" THEN [s \in {"ssp245", "ssp585"} |-> IF s = "ssp245" THEN 3 ELSE 6]
                     ELSE [s \in {"ssp245", "ssp585"} |-> IF s = "ssp245" THEN 13 ELSE 16]]

start_index == 142

max_days == 200

XLimRight == 200

Padding == 2

PosInf == 1000000

NegInf == 0 - PosInf

Locations == {all_locations[i] : i \in 1..Len(all_locations)}

Scenarios == {scenarios[i] : i \in 1..Len(scenarios)}

Cultivars == {cultivars[i] : i \in 1..Len(cultivars)}

(* The (location, scenario) pairs in the order of the nested loops at lines 74-75. *)
pair_order ==
    [k \in 1..(Len(all_locations) * Len(scenarios)) |->
        << all_locations[((k - 1) \div Len(scenarios)) + 1],
           scenarios[((k - 1) % Len(scenarios)) + 1] >>]

(* f'(2071-2090)({scenario})' *)
ScenarioToken(s) == IF s = "ssp245" THEN "(2071-2090)(ssp245)" ELSE "(2071-2090)(ssp585)"

(* ------------------------------------------------------------------ *)
(* Bounds of the explored inputs                                      *)
(* ------------------------------------------------------------------ *)
(* series may be up to MaxShort entries shorter than the scanned window needs *)
MaxShort == 1

(* the long series carry ExtraDays entries after the scanned window *)
ExtraDays == 2

(* MaturityDAS cells go up to max_days + MaxOverrun *)
MaxOverrun == 1

(* ------------------------------------------------------------------ *)
(* Python / pandas primitives                                         *)
(* ------------------------------------------------------------------ *)
Min2(a, b) == IF b < a THEN b ELSE a

Max2(a, b) == IF b > a THEN b ELSE a

(* a slice bound i of a sequence of length n, as Python normalises it *)
PyBound(i, n) == IF i < 0 THEN Max2(i + n, 0) ELSE Min2(i, n)

(* s[lo:hi] with Python's (and .iloc's) semantics, lo and hi 0-based *)
PySlice(s, lo, hi) ==
    LET a == PyBound(lo, Len(s))
        b == PyBound(hi, Len(s))
    IN  IF a >= b THEN << >> ELSE SubSeq(s, a + 1, b)

(* s[i] is defined for -n <= i < n; a negative i counts from the end *)
PyInRange(s, i) == (0 - Len(s)) <= i /\ i < Len(s)

PyGet(s, i) == IF i < 0 THEN s[i + Len(s) + 1] ELSE s[i + 1]

(* range(1, n + 1) *)
PyRange1(n) == [i \in 1..Max2(n, 0) |-> i]

SeqMin(s) == CHOOSE v \in {s[i] : i \in 1..Len(s)} : \A j \in 1..Len(s) : v <= s[j]

SeqMax(s) == CHOOSE v \in {s[i] : i \in 1..Len(s)} : \A j \in 1..Len(s) : v >= s[j]

(* int(round(x)) of a cell x given in tenths: Python rounds halves to even *)
PyRound(t) ==
    LET q == t \div 10
        r == t % 10
    IN  IF r < 5 THEN q
        ELSE IF r > 5 THEN q + 1
        ELSE IF q % 2 = 0 THEN q ELSE q + 1

(* str(cell).strip(): a label is its text and the blanks around it *)
Strip(label) == label.text

(* ------------------------------------------------------------------ *)
(* Input files                                                        *)
(* ------------------------------------------------------------------ *)
(* data/daily_averages/<location>/<scenario>/daily_averages.csv: `len` rows;   *)
(* avg_mint is `lo` (+ a 5-day wave when `wave` = 1) except `slo` at the       *)
(* 0-based row `at`; avg_maxt likewise with `hi` and `shi`.                    *)
DailyFile(len, wave, at, slo, shi) ==
    [exists |-> TRUE, cols |-> TRUE, len |-> len, lo |-> 10, hi |-> 30,
     wave |-> wave, at |-> at, slo |-> slo, shi |-> shi]

FlatDaily(len) == DailyFile(len, 0, 0 - 1, 10, 30)

avg_mint(df) ==
    [i \in 1..df.len |-> IF i - 1 = df.at THEN df.slo ELSE df.lo + df.wave * (i % 5)]

avg_maxt(df) ==
    [i \in 1..df.len |-> IF i - 1 = df.at THEN df.shi ELSE df.hi + df.wave * (i % 5)]

WindowEnd == start_index + max_days

LongLen == WindowEnd + ExtraDays

SpikeRows == {start_index - 1, start_index, WindowEnd - 1} \cup (WindowEnd .. (LongLen - 1))

DailyVariants ==
    {FlatDaily(LongLen), FlatDaily(WindowEnd), DailyFile(LongLen, 1, 0 - 1, 10, 30)}
    \cup {FlatDaily(WindowEnd - k) : k \in 1..MaxShort}
    \cup {[FlatDaily(LongLen) EXCEPT !.exists = FALSE],
          [FlatDaily(LongLen) EXCEPT !.cols = FALSE]}
    \cup {DailyFile(LongLen, 0, p, 0 - 5, 30) : p \in SpikeRows}
    \cup {DailyFile(LongLen, 0, p, 10, 45) : p \in SpikeRows}

(* One sheet of data/Mean.xlsx: `nrows` data rows; the designated rows carry   *)
(* a first-column label and the FloweringDAS / MaturityDAS cells (tenths of a  *)
(* day, << >> for NaN).                                                        *)
DesignatedRows == {row_indices[c][s] : c \in Cultivars, s \in Scenarios}

RowScenario(r) == IF r \in {row_indices[c]["ssp245"] : c \in Cultivars} THEN "ssp245" ELSE "ssp585"

RowCultivar(r) == IF r \in {row_indices["260"][s] : s \in Scenarios} THEN "260" ELSE "704"

Label(text) == [text |-> text, lead |-> 0, trail |-> 0]

DefaultRow(r) ==
    [label |-> Label(ScenarioToken(RowScenario(r))),
     FloweringDAS |-> IF RowScenario(r) = "ssp245" THEN << 600 >> ELSE << 700 >>,
     MaturityDAS  |-> IF RowScenario(r) = "ssp245" THEN << 1200 >> ELSE << 1300 >>]

DefaultSheet ==
    [present |-> TRUE, cols |-> TRUE, nrows |-> 17, rows |-> [r \in DesignatedRows |-> DefaultRow(r)]]

OtherScenario(s) == IF s = "ssp245" THEN "ssp585" ELSE "ssp245"

SheetVariants ==
    {[DefaultSheet EXCEPT !.present = FALSE], [DefaultSheet EXCEPT !.cols = FALSE],
     [DefaultSheet EXCEPT !.nrows = 6], [DefaultSheet EXCEPT !.nrows = 16],
     [DefaultSheet EXCEPT !.rows =
         [r \in DesignatedRows |-> [DefaultRow(r) EXCEPT !.label.lead = 1, !.label.trail = 2]]]}
    \cup {[DefaultSheet EXCEPT !.rows[r].label.text = ScenarioToken(OtherScenario(RowScenario(r)))]
            : r \in DesignatedRows}
    \cup {[DefaultSheet EXCEPT !.rows[r].FloweringDAS = << >>] : r \in DesignatedRows}
    \cup {[DefaultSheet EXCEPT !.rows[r].MaturityDAS = << >>] : r \in DesignatedRows}

(* FloweringDAS / MaturityDAS cells of one cultivar's two rows, in tenths:     *)
(* << flowering ssp245, maturity ssp245, flowering ssp585, maturity ssp585 >>. *)
(* The cells are day counts: none is negative.                                 *)
PhenologyVariants ==
    { << 600, 1200, 700, 1300 >>,      \* the usual case
      << 605, 1195, 615, 1304 >>,      \* cells that need rounding
      << 1250, 1200, 700, 1300 >>,     \* flowering after maturity (ssp245)
      << 1200, 1200, 1310, 1300 >>,    \* flowering on the maturity day; after maturity (ssp585)
      << 600, 1200, 900, 1300 >>,      \* flowering days 30 apart
      << 600, 1300, 700, 1200 >>,      \* ssp245 matures last
      << 0, 1200, 700, 1300 >>,        \* flowering cell 0
      << 600, 0, 700, 1300 >>,         \* one maturity cell 0
      << 0, 0, 0, 0 >>,                \* all cells 0
      << 600, 1200, 700, 10 * max_days >> }
    \cup { << 600, 1200, 700, 10 * (max_days + k) >> : k \in 1..MaxOverrun }

WithPhenology(sheet, c, p) ==
    [sheet EXCEPT !.rows[row_indices[c]["ssp245"]].FloweringDAS = << p[1] >>,
                  !.rows[row_indices[c]["ssp245"]].MaturityDAS  = << p[2] >>,
                  !.rows[row_indices[c]["ssp585"]].FloweringDAS = << p[3] >>,
                  !.rows[row_indices[c]["ssp585"]].MaturityDAS  = << p[4] >>]

(* data/future/KSC<c>-Future/<location>/(2071-2090)(<scenario>)-<location>-<c>.csv: *)
(* the FloweringDAS column under the header, << >> for a non-numeric entry     *)
DefaultFuture ==
    [exists |-> TRUE,
     FloweringDAS |-> << << >>, << >>, << 1 >>, << 2 >>, << 58 >>, << 60 >>, << >>, << 65 >> >>]

FutureVariants ==
    {DefaultFuture,
     [DefaultFuture EXCEPT !.exists = FALSE],
     [DefaultFuture EXCEPT !.FloweringDAS = << << 1 >>, << 2 >>, << 3 >>, << 4 >>, << >>, << >> >>],
     [DefaultFuture EXCEPT !.FloweringDAS = << << 1 >>, << 2 >> >>]}

(* ------------------------------------------------------------------ *)
(* State                                                              *)
(* ------------------------------------------------------------------ *)
VARIABLES
    daily_files,       \* input: (location, scenario) -> daily_averages.csv
    mean_xlsx,         \* input: location -> sheet of Mean.xlsx
    future_files,      \* input: (cultivar, location, scenario) -> future csv
    pc,                \* position of the script
    err,               \* the exception that ended the run, if any
    scan_idx,          \* 1-based position of the range scan in pair_order
    y_min, y_max,      \* the global y-axis range
    group_idx,         \* enumerate(location_groups, start=1)
    loc_idx, cult_idx, \* enumerate(locations), enumerate(cultivars)
    scen_idx,          \* idx of the scenario loop at line 156
    mean_df,           \* the sheet read at line 109
    maturity_das, flowering_das, flowering_std, max_maturity_das,
    axes,              \* the subplots of the current figure
    artifacts          \* the image files written so far

inputs == << daily_files, mean_xlsx, future_files >>

range_vars == << scan_idx, y_min, y_max >>

loop_vars == << group_idx, loc_idx, cult_idx, scen_idx >>

record_vars == << mean_df, maturity_das, flowering_das, flowering_std, max_maturity_das >>

vars == << daily_files, mean_xlsx, future_files, pc, err, scan_idx, y_min, y_max,
           group_idx, loc_idx, cult_idx, scen_idx, mean_df, maturity_das,
           flowering_das, flowering_std, max_maturity_das, axes, artifacts >>

NoError == [type |-> "none", line |-> 0]

Raise(type, line) == [type |-> type, line |-> line]

Unset == [s \in Scenarios |-> 0]

(* ------------------------------------------------------------------ *)
(* Explored inputs: every file is the default one except the daily    *)
(* series of one pair, one sheet and one future file.                 *)
(* ------------------------------------------------------------------ *)
VariedPairs == { << "Dezful", "ssp245" >>, << "Shushtar", "ssp585" >>, << "Parsabad", "ssp245" >> }

VariedSheets == { "Shushtar", "Parsabad" }

VariedSubplots == { << "Shushtar", "704" >>, << "Parsabad", "260" >> }

VariedFuture == << "704", "Shushtar", "ssp585" >>

DailyInputs(pair, df) ==
    [p \in {pair_order[k] : k \in 1..Len(pair_order)} |-> IF p = pair THEN df ELSE FlatDaily(LongLen)]

SheetInputs(loc, sheet) == [l \in Locations |-> IF l = loc THEN sheet ELSE DefaultSheet]

FutureInputs(f) ==
    [k \in Cultivars \X Locations \X Scenarios |-> IF k = VariedFuture THEN f ELSE DefaultFuture]

(* the daily variants tried together with a varied phenology *)
ChartDailyVariants ==
    {FlatDaily(LongLen), FlatDaily(WindowEnd), DailyFile(LongLen, 1, 0 - 1, 10, 30),
     DailyFile(LongLen, 0, WindowEnd, 10, 45), DailyFile(LongLen, 0, start_index, 0 - 5, 30)}

Init ==
    /\ \/ \E pair \in VariedPairs, df \in DailyVariants :
            /\ daily_files = DailyInputs(pair, df)
            /\ mean_xlsx = SheetInputs("Shushtar", DefaultSheet)
            /\ future_files = FutureInputs(DefaultFuture)
       \/ \E loc \in VariedSheets, sheet \in SheetVariants :
            /\ daily_files = DailyInputs(<< "Dezful", "ssp245" >>, FlatDaily(LongLen))
            /\ mean_xlsx = SheetInputs(loc, sheet)
            /\ future_files = FutureInputs(DefaultFuture)
       \/ \E f \in FutureVariants :
            /\ daily_files = DailyInputs(<< "Dezful", "ssp245" >>, FlatDaily(LongLen))
            /\ mean_xlsx = SheetInputs("Shushtar", DefaultSheet)
            /\ future_files = FutureInputs(f)
       \/ \E sub \in VariedSubplots, p \in PhenologyVariants, df \in ChartDailyVariants :
            /\ daily_files = DailyInputs(<< sub[1], "ssp585" >>, df)
            /\ mean_xlsx = SheetInputs(sub[1], WithPhenology(DefaultSheet, sub[2], p))
            /\ future_files = FutureInputs(DefaultFuture)
    /\ pc = "scan"
    /\ err = NoError
    /\ scan_idx = 1
    /\ y_min = PosInf
    /\ y_max = NegInf
    /\ group_idx = 1
    /\ loc_idx = 0
    /\ cult_idx = 0
    /\ scen_idx = 0
    /\ mean_df = DefaultSheet
    /\ maturity_das = Unset
    /\ flowering_das = Unset
    /\ flowering_std = [s \in Scenarios |-> [n |-> 0, ssd |-> 0]]
    /\ max_maturity_das = 0
    /\ axes = << >>
    /\ artifacts = << >>

(* ------------------------------------------------------------------ *)
(* Range scan, lines 70-96                                            *)
(* ------------------------------------------------------------------ *)
TooShort_OffByOne(df, end_index) == end_index > df.len + 1

(* line 87: the series is too short for the scanned window *)
TooShort(df, end_index) == end_index > df.len

temp_data_MinOnly(df, end_index) == PySlice(avg_mint(df), start_index, end_index)

(* line 90: daily_df[['avg_mint', 'avg_maxt']].iloc[start_index:end_index], *)
(* the two columns one after the other                                      *)
temp_data(df, end_index) ==
    PySlice(avg_mint(df), start_index, end_index) \o PySlice(avg_maxt(df), start_index, end_index)

(* the first exception of one iteration of the scan, lines 76-88 *)
ScanError(df) ==
    IF ~df.exists THEN Raise("FileNotFoundError", 78)
    ELSE IF ~df.cols THEN Raise("KeyError", 84)
    ELSE IF TooShort(df, start_index + max_days) THEN Raise("IndexError", 88)
    ELSE NoError

LastPair_SkipsOne == Len(pair_order) - 1

(* the last iteration of the loops at lines 74-75 *)
LastPair == Len(pair_order)

ScanSeries ==
    /\ pc = "scan"
    /\ LET df == daily_files[pair_order[scan_idx]]
           e == ScanError(df)
       IN  IF e # NoError
           THEN /\ pc' = "failed"
                /\ err' = e
                /\ UNCHANGED range_vars
           ELSE /\ y_min' = Min2(y_min, SeqMin(temp_data(df, start_index + max_days)))
                /\ y_max' = Max2(y_max, SeqMax(temp_data(df, start_index + max_days)))
                /\ scan_idx' = scan_idx + 1
                /\ pc' = IF scan_idx = LastPair THEN "pad" ELSE "scan"
                /\ err' = err
    /\ UNCHANGED << inputs, loop_vars, record_vars, axes, artifacts >>

(* lines 95-96 *)
PadRange ==
    /\ pc = "pad"
    /\ y_min' = y_min - Padding
    /\ y_max' = y_max + Padding
    /\ pc' = "subplots"
    /\ UNCHANGED << inputs, err, scan_idx, loop_vars, record_vars, axes, artifacts >>

(* ------------------------------------------------------------------ *)
(* Group loop, lines 98-228                                           *)
(* ------------------------------------------------------------------ *)
location == location_groups[group_idx][loc_idx + 1]

cultivar == cultivars[cult_idx + 1]

EmptyAxes ==
    [lines |-> << >>, vlines |-> << >>, annotations |-> << >>,
     title |-> << >>, xlim |-> << >>, ylim |-> << >>, legend |-> FALSE]

(* lines 99-104: plt.subplots(num_locations, 2, sharex=True, sharey=True) *)
Subplots ==
    /\ pc = "subplots"
    /\ axes' = [i \in 1..(Len(location_groups[group_idx]) * 2) |-> EmptyAxes]
    /\ loc_idx' = 0
    /\ pc' = "read_sheet"
    /\ UNCHANGED << inputs, err, range_vars, group_idx, cult_idx, scen_idx, record_vars, artifacts >>

(* lines 106-111: pd.read_excel(mean_excel_file, sheet_name=location) *)
ReadSheet ==
    /\ pc = "read_sheet"
    /\ IF ~mean_xlsx[location].present
       THEN /\ pc' = "failed"
            /\ err' = Raise("ValueError", 111)
            /\ UNCHANGED << mean_df, cult_idx >>
       ELSE /\ mean_df' = mean_xlsx[location]
            /\ cult_idx' = 0
            /\ pc' = "validate"
            /\ err' = err
    /\ UNCHANGED << inputs, range_vars, group_idx, loc_idx, scen_idx,
                    maturity_das, flowering_das, flowering_std, max_maturity_das, axes, artifacts >>

(* lines 124-133: the checks of one designated row *)
RowError(df, r, s) ==
    IF Strip(df.rows[r].label) # ScenarioToken(s) THEN Raise("ValueError", 126)
    ELSE IF ~df.cols THEN Raise("KeyError", 128)
    ELSE IF df.rows[r].FloweringDAS = << >> THEN Raise("ValueError", 132)
    ELSE IF df.rows[r].MaturityDAS = << >> THEN Raise("ValueError", 132)
    ELSE NoError

(* line 117: max(row_indices[cultivar].values()) *)
max_row(c) == Max2(row_indices[c]["ssp245"], row_indices[c]["ssp585"])

(* lines 116-133: the first exception of the validation of one cultivar's rows *)
ValidationError(df, c) ==
    IF df.nrows <= max_row(c) THEN Raise("IndexError", 120)
    ELSE IF RowError(df, row_indices[c]["ssp245"], "ssp245") # NoError
         THEN RowError(df, row_indices[c]["ssp245"], "ssp245")
    ELSE RowError(df, row_indices[c]["ssp585"], "ssp585")

ValidateRows ==
    /\ pc = "validate"
    /\ LET e == ValidationError(mean_df, cultivar)
       IN  IF e # NoError
           THEN pc' = "failed" /\ err' = e
           ELSE pc' = "extract" /\ err' = err
    /\ UNCHANGED << inputs, range_vars, loop_vars, record_vars, axes, artifacts >>

RECURSIVE SumSeq(_)
SumSeq(s) == IF s = << >> THEN 0 ELSE Head(s) + SumSeq(Tail(s))

(* line 150: pd.to_numeric(future_df.iloc[4:]['FloweringDAS'], errors='coerce').std(). *)
(* The sample standard deviation of the n numeric entries x is sqrt(ssd / (n (n-1)))  *)
(* with ssd = n * sum(x^2) - sum(x)^2; it is NaN when n < 2.                          *)
FloweringStd(f) ==
    LET members == PySlice(f.FloweringDAS, 4, Len(f.FloweringDAS))
        numeric == SelectSeq(members, LAMBDA c : c # << >>)
        xs == [i \in 1..Len(numeric) |-> numeric[i][1]]
        sq == [i \in 1..Len(xs) |-> xs[i] * xs[i]]
    IN  [n |-> Len(xs), ssd |-> Len(xs) * SumSeq(sq) - SumSeq(xs) * SumSeq(xs)]

(* lines 136-143: int(round(mean_df.loc[row_indices[cultivar][scenario], col])) *)
DasOf(df, c, col) ==
    [s \in Scenarios |-> PyRound(IF col = "MaturityDAS" THEN df.rows[row_indices[c][s]].MaturityDAS[1]
                                                         ELSE df.rows[row_indices[c][s]].FloweringDAS[1])]

(* lines 136-154 *)
ExtractPhenology ==
    /\ pc = "extract"
    /\ maturity_das' = DasOf(mean_df, cultivar, "MaturityDAS")
    /\ flowering_das' = DasOf(mean_df, cultivar, "FloweringDAS")
    /\ IF \E s \in Scenarios : ~future_files[<< cultivar, location, s >>].exists
       THEN /\ pc' = "failed"
            /\ err' = Raise("FileNotFoundError", 148)
            /\ UNCHANGED << flowering_std, max_maturity_das, scen_idx >>
       ELSE /\ flowering_std' = [s \in Scenarios |-> FloweringStd(future_files[<< cultivar, location, s >>])]
            /\ max_maturity_das' = Max2(maturity_das'["ssp245"], maturity_das'["ssp585"])
            /\ scen_idx' = 0
            /\ pc' = "draw"
            /\ err' = err
    /\ UNCHANGED << inputs, range_vars, group_idx, loc_idx, cult_idx, mean_df, axes, artifacts >>

(* lines 59-68 *)
color_schemes(c, s) ==
    IF c = "260"
    THEN IF s = "ssp245" THEN [mint |-> "lightpink", maxt |-> "crimson"]
                         ELSE [mint |-> "mediumpurple", maxt |-> "darkcyan"]
    ELSE IF s = "ssp245" THEN [mint |-> "blue", maxt |-> "orange"]
                         ELSE [mint |-> "cyan", maxt |-> "red"]

(* lines 156-159: the scenarios in drawing order, with their line styles *)
draw_order == << [label |-> "ssp245", linestyle |-> "-"], [label |-> "ssp585", linestyle |-> "--"] >>

(* lines 168-169: daily_df[col].iloc[start_index:start_index + max_maturity_das].values *)
chart_values(column, n) == PySlice(column, start_index, start_index + n)

Curve_SharedMaximum(days, values, m) == [x |-> days, y |-> values]

(* lines 172, 177: the curve ax.plot receives: days[:m] against values[:m] *)
Curve(days, values, m) == [x |-> PySlice(days, 0, m), y |-> PySlice(values, 0, m)]

FloweringGuard_Strict(f, m) == f < m

(* line 184 *)
FloweringGuard(f, m) == f <= m

(* line 198 *)
MaturityGuard(m, n) == m <= n

(* line 188 *)
x_offset(fd) ==
    LET d == fd["ssp245"] - fd["ssp585"]
    IN  IF (IF d < 0 THEN 0 - d ELSE d) < 20 THEN 10 ELSE 5

(* lines 185-196: y coordinates are kept doubled, (mint + maxt) / 2 being a half *)
FloweringAnnotation(s, idx, fd, std, mint_values, maxt_values) ==
    LET flowering_index == fd[s] - 1
        y2 == PyGet(mint_values, flowering_index) + PyGet(maxt_values, flowering_index)
    IN  [kind |-> "Flowering", scenario |-> s, day |-> fd[s], std |-> std[s],
         index |-> flowering_index, n |-> Len(mint_values),
         x |-> fd[s], y2 |-> y2 + 2 * (idx * 6),
         text_x |-> fd[s] + x_offset(fd), text_y2 |-> y2 + 2 * (idx * 6) + 4]

(* lines 199-208 *)
MaturityAnnotation(s, md, mint_values) ==
    LET maturity_index == md[s] - 1
        y == PyGet(mint_values, maturity_index) - (IF s = "ssp245" THEN 1 ELSE 0 - 1)
    IN  [kind |-> "Maturity", scenario |-> s, day |-> md[s], std |-> [n |-> 0, ssd |-> 0],
         index |-> maturity_index, n |-> Len(mint_values),
         x |-> md[s], y2 |-> 2 * y,
         text_x |-> md[s] + 1, text_y2 |-> 2 * (y + (IF s = "ssp245" THEN 0 - 2 ELSE 2))]

(* lines 160-208: one pass of the scenario loop on subplot ax; the result is   *)
(* the subplot as the pass leaves it and the exception that ended it, if any   *)
DrawPass(ax, loc, c, idx, md, fd, std, n) ==
    LET s == draw_order[idx + 1].label
        df == daily_files[<< loc, s >>]
        mint_values == chart_values(avg_mint(df), n)
        maxt_values == chart_values(avg_maxt(df), n)
        days == PyRange1(n)
        mint_curve == Curve(days, mint_values, md[s])
        maxt_curve == Curve(days, maxt_values, md[s])
        a1 == [ax EXCEPT !.lines = ax.lines
                  \o << [label |-> << "Min Temp", s >>, color |-> color_schemes(c, s).mint,
                         linestyle |-> draw_order[idx + 1].linestyle,
                         x |-> mint_curve.x, y |-> mint_curve.y],
                        [label |-> << "Max Temp", s >>, color |-> color_schemes(c, s).maxt,
                         linestyle |-> draw_order[idx + 1].linestyle,
                         x |-> maxt_curve.x, y |-> maxt_curve.y] >>]
        a2 == IF FloweringGuard(fd[s], md[s])
              THEN [a1 EXCEPT !.vlines = a1.vlines \o << [x |-> fd[s], color |-> "green"] >>,
                              !.annotations = a1.annotations
                                  \o << FloweringAnnotation(s, idx, fd, std, mint_values, maxt_values) >>]
              ELSE a1
        a3 == IF MaturityGuard(md[s], n)
              THEN [a2 EXCEPT !.vlines = a2.vlines \o << [x |-> md[s], color |-> "black"] >>,
                              !.annotations = a2.annotations
                                  \o << MaturityAnnotation(s, md, mint_values) >>]
              ELSE a2
    IN  IF TooShort(df, start_index + n)
        THEN [ax |-> ax, err |-> Raise("IndexError", 166)]
        ELSE IF Len(mint_curve.x) # Len(mint_curve.y)
        THEN [ax |-> ax, err |-> Raise("ValueError", 172)]
        ELSE IF FloweringGuard(fd[s], md[s]) /\ ~PyInRange(mint_values, fd[s] - 1)
        THEN [ax |-> a1, err |-> Raise("IndexError", 186)]
        ELSE IF MaturityGuard(md[s], n) /\ ~PyInRange(mint_values, md[s] - 1)
        THEN [ax |-> a2, err |-> Raise("IndexError", 200)]
        ELSE [ax |-> a3, err |-> NoError]

(* axes[loc_idx * 2 + cult_idx] *)
ax_index == loc_idx * 2 + cult_idx + 1

DrawScenario ==
    /\ pc = "draw"
    /\ LET r == DrawPass(axes[ax_index], location, cultivar, scen_idx,
                         maturity_das, flowering_das, flowering_std, max_maturity_das)
       IN  /\ axes' = [axes EXCEPT ![ax_index] = r.ax]
           /\ IF r.err # NoError
              THEN pc' = "failed" /\ err' = r.err /\ scen_idx' = scen_idx
              ELSE /\ err' = err
                   /\ scen_idx' = scen_idx + 1
                   /\ pc' = IF scen_idx + 1 = Len(draw_order) THEN "settings" ELSE "draw"
    /\ UNCHANGED << inputs, range_vars, group_idx, loc_idx, cult_idx, record_vars, artifacts >>

(* lines 215-216 on axes created with sharex=True, sharey=True: the limits of  *)
(* one subplot are the limits of every subplot of the figure                   *)
SetLimits(axs, xlim, ylim) == [i \in 1..Len(axs) |-> [axs[i] EXCEPT !.xlim = xlim, !.ylim = ylim]]

YLim_Unpadded == << y_min + Padding, y_max - Padding >>

(* line 216: ax.set_ylim(y_min, y_max) *)
YLim == << y_min, y_max >>

(* lines 210-218, and the step of the loops at lines 106 and 113 *)
SubplotSettings ==
    /\ pc = "settings"
    /\ axes' = SetLimits([axes EXCEPT ![ax_index].title = << location, cultivar >>,
                                      ![ax_index].legend = TRUE],
                         << 0, XLimRight >>, YLim)
    /\ IF cult_idx + 1 < Len(cultivars)
       THEN cult_idx' = cult_idx + 1 /\ loc_idx' = loc_idx /\ pc' = "validate"
       ELSE IF loc_idx + 1 < Len(location_groups[group_idx])
       THEN cult_idx' = cult_idx /\ loc_idx' = loc_idx + 1 /\ pc' = "read_sheet"
       ELSE cult_idx' = cult_idx /\ loc_idx' = loc_idx /\ pc' = "save"
    /\ UNCHANGED << inputs, err, range_vars, group_idx, scen_idx, record_vars, artifacts >>

output_file_ZeroBased(g) == << "plot_grid_", g - 1, ".png" >>

(* line 225 *)
output_file(g) == << "plot_grid_", g, ".png" >>

(* what plt.savefig renders of one subplot *)
(* the lowest and the highest value of a curve, << >> for a curve without points *)
Extent(y) == IF y = << >> THEN << >> ELSE << SeqMin(y), SeqMax(y) >>

Rendered(ax) ==
    [title |-> ax.title, xlim |-> ax.xlim, ylim |-> ax.ylim,
     points |-> [i \in 1..Len(ax.lines) |-> Len(ax.lines[i].x)],
     extents |-> [i \in 1..Len(ax.lines) |-> Extent(ax.lines[i].y)],
     annotations |-> Len(ax.annotations)]

(* lines 220-228; plt.savefig may raise (no retry: the exception ends the run) *)
SaveFigure ==
    /\ pc = "save"
    /\ \E written \in BOOLEAN :
          IF written
          THEN /\ artifacts' = Append(artifacts,
                      [name |-> output_file(group_idx),
                       axes |-> [i \in 1..Len(axes) |-> Rendered(axes[i])]])
               /\ axes' = << >>
               /\ err' = err
               /\ IF group_idx < Len(location_groups)
                  THEN group_idx' = group_idx + 1 /\ pc' = "subplots"
                  ELSE group_idx' = group_idx /\ pc' = "done"
          ELSE /\ pc' = "failed"
               /\ err' = Raise("OSError", 226)
               /\ UNCHANGED << artifacts, axes, group_idx >>
    /\ UNCHANGED << inputs, range_vars, loc_idx, cult_idx, scen_idx, record_vars >>

Next ==
    \/ ScanSeries
    \/ PadRange
    \/ Subplots
    \/ ReadSheet
    \/ ValidateRows
    \/ ExtractPhenology
    \/ DrawScenario
    \/ SubplotSettings
    \/ SaveFigure

Spec == Init /\ [][Next]_vars

(* ------------------------------------------------------------------ *)
(* Properties                                                         *)
(* ------------------------------------------------------------------ *)
AllPairs == {pair_order[k] : k \in 1..Len(pair_order)}

SetMin(S) == CHOOSE v \in S : \A w \in S : v <= w

SetMax(S) == CHOOSE v \in S : \A w \in S : v >= w

(* the 0-based rows start_index .. start_index + max_days - 1 *)
WindowRows == 142..341

ValuesAt(df, rows) ==
    LET lo == avg_mint(df)
        hi == avg_maxt(df)
    IN  {lo[i + 1] : i \in rows} \cup {hi[i + 1] : i \in rows}

ScannedValues == UNION {ValuesAt(daily_files[p], WindowRows) : p \in AllPairs}

ScanCompleted == scan_idx > Len(pair_order)

RangePadded == ScanCompleted /\ pc # "pad"

(* the running minimum and maximum of lines 91-92 taken over the pairs in a given order *)
RECURSIVE FoldRange(_, _, _, _)
FoldRange(order, k, lo, hi) ==
    IF k > Len(order) THEN << lo, hi >>
    ELSE LET td == temp_data(daily_files[order[k]], 342)
         IN  FoldRange(order, k + 1, Min2(lo, SeqMin(td)), Max2(hi, SeqMax(td)))

VisitOrders ==
    {[k \in 1..Len(pair_order) |-> pair_order[((k - 1 + r) % Len(pair_order)) + 1]]
        : r \in {0, 1, 7}}
    \cup {[k \in 1..Len(pair_order) |-> pair_order[Len(pair_order) + 1 - k]]}

(* C1: when all series pass validation the scanner's result is (m - 2, M + 2),  *)
(* m and M the minimum and maximum of all avg_mint and avg_maxt values at rows  *)
(* 142 .. 341 of every series; visiting the pairs in another order gives the    *)
(* same unpadded range.  The padded result is read when the scanner hands over  *)
(* to the group loop, at the start of every group and at the end of the run.    *)
Thm_C1_RangeIsPaddedExtremes ==
    /\ pc = "pad" =>
          /\ << y_min, y_max >> = << SetMin(ScannedValues), SetMax(ScannedValues) >>
          /\ \A order \in VisitOrders : FoldRange(order, 1, PosInf, NegInf) = << y_min, y_max >>
    /\ (RangePadded /\ pc \in {"subplots", "done"}) =>
          << y_min, y_max >> = << SetMin(ScannedValues) - 2, SetMax(ScannedValues) + 2 >>

Wit_C1_SpikeInWindowScanned ==
    /\ pc = "subplots"
    /\ group_idx = 1
    /\ \E p \in AllPairs : daily_files[p].at = 341 /\ daily_files[p].shi = 45
    /\ << y_min, y_max >> = << 8, 47 >>

ShortPairs ==
    {p \in AllPairs : daily_files[p].exists /\ daily_files[p].cols /\ daily_files[p].len < 342}

NothingDrawnOrWritten == axes = << >> /\ artifacts = << >>

AllSeriesValid ==
    \A p \in AllPairs : daily_files[p].exists /\ daily_files[p].cols /\ daily_files[p].len >= 342

ChartStarted == axes # << >> \/ artifacts # << >>

(* C4: before the first subplot is composed the scanner has visited and        *)
(* validated all 16 series and fixed the padded range; the range is not        *)
(* modified afterwards.                                                        *)
Thm_C4_RangeFixedBeforeCharts ==
    /\ [](ChartStarted => (scan_idx = 17 /\ AllSeriesValid /\ RangePadded))
    /\ [][RangePadded => (y_min' = y_min /\ y_max' = y_max /\ scan_idx' = scan_idx)]_vars

Wit_C4_FirstSubplotDrawn ==
    /\ group_idx = 1
    /\ pc = "draw"
    /\ scen_idx = 1
    /\ Len(axes[1].lines) = 2
    /\ scan_idx = 17

(* subplot i of the grid of group g shows location SubLoc(g, i) and cultivar SubCult(i) *)
SubLoc(g, i) == location_groups[g][((i - 1) \div 2) + 1]

SubCult(i) == cultivars[((i - 1) % 2) + 1]

(* line j of a subplot belongs to scenario LineScenario(j): two lines per scenario *)
LineScenario(j) == scenarios[((j - 1) \div 2) + 1]

(* the whole-day value of a cell of the summary sheet of location l *)
SheetDas(l, c, s, col) ==
    LET row == mean_xlsx[l].rows[row_indices[c][s]]
    IN  PyRound(IF col = "MaturityDAS" THEN row.MaturityDAS[1] ELSE row.FloweringDAS[1])

(* C5: both curves of a scenario have exactly MaturityDAS[scenario] points,    *)
(* the days 1 .. MaturityDAS[scenario] against the series entries at rows      *)
(* 142 .. 142 + MaturityDAS[scenario] - 1, whatever the other scenario's       *)
(* maturity is.                                                                *)
Thm_C5_CurveStopsAtOwnMaturity ==
    \A i \in 1..Len(axes) : \A j \in 1..Len(axes[i].lines) :
        LET l == SubLoc(group_idx, i)
            s == LineScenario(j)
            m == SheetDas(l, SubCult(i), s, "MaturityDAS")
            df == daily_files[<< l, s >>]
            col == IF j % 2 = 1 THEN avg_mint(df) ELSE avg_maxt(df)
        IN  /\ Len(axes[i].lines[j].x) = m
            /\ axes[i].lines[j].x = [k \in 1..m |-> k]
            /\ axes[i].lines[j].y = [k \in 1..m |-> col[142 + k]]

Wit_C5_ShorterScenarioTruncated ==
    /\ pc = "settings"
    /\ maturity_das = [s \in Scenarios |-> IF s = "ssp245" THEN 130 ELSE 120]
    /\ daily_files[<< location, "ssp585" >>].wave = 1
    /\ Len(axes[ax_index].lines[1].x) = 130
    /\ Len(axes[ax_index].lines[3].x) = 120
    /\ axes[ax_index].lines[4].y[120] = 30 + (262 % 5)

FloweringMarks(ax, s) ==
    SelectSeq(ax.annotations, LAMBDA a : a.kind = "Flowering" /\ a.scenario = s)

MaturityMarks(ax, s) ==
    SelectSeq(ax.annotations, LAMBDA a : a.kind = "Maturity" /\ a.scenario = s)

GreenLines(ax) == SelectSeq(ax.vlines, LAMBDA v : v.color = "green")

(* the pass of scenario s over the subplot ran to its end: its maturity marker is there *)
PassCompleted(ax, s) == MaturityMarks(ax, s) # << >>

(* C6: a flowering marker and annotation are emitted for a scenario exactly    *)
(* when FloweringDAS <= MaturityDAS; none is emitted when FloweringDAS >       *)
(* MaturityDAS.                                                                *)
Thm_C6_FloweringOnlyUpToMaturity ==
    \A i \in 1..Len(axes) :
        IF axes[i].lines = << >>
        THEN axes[i].annotations = << >> /\ axes[i].vlines = << >>
        ELSE /\ \A s \in Scenarios :
                  LET f == SheetDas(SubLoc(group_idx, i), SubCult(i), s, "FloweringDAS")
                      m == SheetDas(SubLoc(group_idx, i), SubCult(i), s, "MaturityDAS")
                      marks == FloweringMarks(axes[i], s)
                  IN  /\ f > m => marks = << >>
                      /\ PassCompleted(axes[i], s) => Len(marks) = (IF f <= m THEN 1 ELSE 0)
                      /\ \A k \in 1..Len(marks) : marks[k].day = f
             /\ Len(GreenLines(axes[i])) =
                  Len(FloweringMarks(axes[i], "ssp245")) + Len(FloweringMarks(axes[i], "ssp585"))

Wit_C6_LateFloweringNotMarked ==
    /\ pc = "settings"
    /\ flowering_das["ssp245"] = 120 /\ maturity_das["ssp245"] = 120
    /\ flowering_das["ssp585"] = 131 /\ maturity_das["ssp585"] = 130
    /\ Len(FloweringMarks(axes[ax_index], "ssp245")) = 1
    /\ FloweringMarks(axes[ax_index], "ssp585") = << >>
    /\ PassCompleted(axes[ax_index], "ssp585")

(* C7: in a run that completes every subplot of every grid has the vertical    *)
(* range (m - 2, M + 2) of the scanner and the horizontal range (0, 200); with *)
(* all scanned windows flat at 10 and 30 the vertical range is (8, 32), and a  *)
(* scenario's curve is longer than the other's by the difference of their      *)
(* maturities.                                                                 *)
Thm_C7_SharedAxisRanges ==
    /\ pc = "save" => \A i \in 1..Len(axes) : axes[i].ylim = << y_min, y_max >>
    /\ pc = "done" =>
          LET scanned == ScannedValues
              range == << SetMin(scanned) - 2, SetMax(scanned) + 2 >>
          IN  /\ Len(artifacts) = 4
              /\ scanned = {10, 30} => range = << 8, 32 >>
              /\ \A k \in 1..Len(artifacts) : \A i \in 1..4 :
                    LET r == artifacts[k].axes[i]
                        m245 == SheetDas(SubLoc(k, i), SubCult(i), "ssp245", "MaturityDAS")
                        m585 == SheetDas(SubLoc(k, i), SubCult(i), "ssp585", "MaturityDAS")
                    IN  /\ r.ylim = range
                        /\ r.xlim = << 0, 200 >>
                        /\ r.points[3] - r.points[1] = m585 - m245
                        /\ r.points[4] - r.points[2] = m585 - m245

Wit_C7_FlatSeriesExample ==
    /\ pc = "done"
    /\ ScannedValues = {10, 30}
    /\ \A k \in 1..4 : \A i \in 1..4 :
          /\ artifacts[k].axes[i].ylim = << 8, 32 >>
          /\ artifacts[k].axes[i].xlim = << 0, 200 >>
          /\ artifacts[k].axes[i].points = << 120, 120, 130, 130 >>

Composed(ax) == Len(ax.lines) = 4 /\ ax.title # << >> /\ ax.legend /\ ax.ylim # << >>

(* C8: artifacts are written in group order, plot_grid_k after the four        *)
(* subplots of group k are composed and after plot_grid_1 .. plot_grid_(k-1);  *)
(* a run without failure writes exactly plot_grid_1 .. plot_grid_4; a failure  *)
(* while group k is processed ends the run with exactly plot_grid_1 ..         *)
(* plot_grid_(k-1) written.                                                    *)
Thm_C8_ArtifactsInGroupOrder ==
    /\ [](/\ Len(artifacts) <= 4
          /\ \A k \in 1..Len(artifacts) :
                /\ artifacts[k].name = << "plot_grid_", k, ".png" >>
                /\ \A i \in 1..4 :
                      /\ artifacts[k].axes[i].title = << SubLoc(k, i), SubCult(i) >>
                      /\ Len(artifacts[k].axes[i].points) = 4
          /\ pc = "done" => (Len(artifacts) = 4 /\ err = NoError)
          /\ (pc = "failed" /\ err.line <= 96) => artifacts = << >>
          /\ (pc = "failed" /\ err.line > 96) => Len(artifacts) = group_idx - 1)
    /\ [][/\ pc \notin {"failed", "done"}
          /\ \/ artifacts' = artifacts
             \/ /\ pc = "save"
                /\ \A i \in 1..4 : Composed(axes[i])
                /\ Len(artifacts') = Len(artifacts) + 1
                /\ SubSeq(artifacts', 1, Len(artifacts)) = artifacts
                /\ artifacts'[Len(artifacts')].name = << "plot_grid_", group_idx, ".png" >>]_vars

Wit_C8_FailureInLastGroup ==
    /\ pc = "failed"
    /\ err = Raise("ValueError", 126)
    /\ group_idx = 4
    /\ Len(artifacts) = 3
    /\ artifacts[3].name = << "plot_grid_", 3, ".png" >>

(* the designated rows of the sheet of location l whose label is not the expected token *)
MislabelledRows(l) ==
    {r \in DesignatedRows :
        /\ mean_xlsx[l].present
        /\ r < mean_xlsx[l].nrows
        /\ Strip(mean_xlsx[l].rows[r].label) # ScenarioToken(RowScenario(r))}

DrawnOn(ax) == ax.lines # << >> \/ ax.vlines # << >> \/ ax.annotations # << >>

(* C3: when a designated row of a location's sheet, of either cultivar and     *)
(* either scenario, carries a wrong label, nothing is ever drawn on a subplot  *)
(* of that location (and no grid showing it is written).                       *)
Cex_C3_MislabelledSheetNeverDrawn ==
    \A g \in 1..Len(location_groups) : \A li \in 1..Len(location_groups[g]) :
        MislabelledRows(location_groups[g][li]) # {} =>
            /\ Len(artifacts) < g
            /\ (g = group_idx /\ axes # << >>) =>
                  (~DrawnOn(axes[2 * li - 1]) /\ ~DrawnOn(axes[2 * li]))

(* C9: in a run that completes every plotted temperature lies strictly inside *)
(* the shared vertical range of its subplot.                                   *)
Cex_C9_CurvesInsideRange ==
    pc = "done" =>
        \A k \in 1..Len(artifacts) : \A i \in 1..Len(artifacts[k].axes) :
            \A j \in 1..Len(artifacts[k].axes[i].extents) :
                LET r == artifacts[k].axes[i]
                IN  \/ r.extents[j] = << >>
                    \/ (r.ylim[1] < r.extents[j][1] /\ r.extents[j][2] < r.ylim[2])

(* C10: the position an annotation reads its temperature at, FloweringDAS - 1  *)
(* or MaturityDAS - 1, lies in 0 .. n - 1, n the number of loaded values.      *)
Cex_C10_AnnotationIndexInRange ==
    \A i \in 1..Len(axes) : \A k \in 1..Len(axes[i].annotations) :
        LET a == axes[i].annotations[k]
        IN  0 <= a.index /\ a.index <= a.n - 1

====
